---- MODULE Spec2Model ----
(***************************************************************************)
(* Model of the table-assignment repository: the pure helpers of           *)
(* src/utils/table-helpers.ts (filterUsers, getSortValue, sortUsers,       *)
(* paginateData) and the DataTable component of                            *)
(* src/components/DataTable.tsx (its React state, its two effects, its     *)
(* event handlers).                                                        *)
(*                                                                         *)
(* Strings are sequences of UTF-16 code units (numbers), so that           *)
(* String.prototype.includes, trim, toLowerCase and the relational         *)
(* operators are computed as JavaScript computes them.                     *)
(***************************************************************************)
EXTENDS Integers, Sequences, FiniteSets, TLC

VARIABLES
    users,          \* useState<User[]>([])                 DataTable.tsx:37
    loading,        \* useState(true)                       DataTable.tsx:38
    error,          \* useState<string | null>(null)        DataTable.tsx:39
    searchQuery,    \* useState("")                         DataTable.tsx:40
    debouncedQuery, \* useState("")                         DataTable.tsx:41
    sortConfig,     \* useState({key, direction})           DataTable.tsx:42
    currentPage,    \* useState(1)                          DataTable.tsx:46
    mounted,        \* the component instance is alive (React drops updates after unmount)
    timers,         \* pending setTimeout callbacks: records [id, value]
    timer,          \* the handle held by the latest debounce effect (its cleanup closure)
    attempts,       \* the fetchUsers() calls made so far: records [pc, aborted]
    queryHistory,   \* history: every value searchQuery has held
    fUsers,         \* pure-function harness: the record set handed to filterUsers
    fQuery,         \* pure-function harness: the query handed to filterUsers
    fOut,           \* pure-function harness: the result of filterUsers
    fApplied,       \* pure-function harness: filterUsers has been applied
    fAgain,         \* filter harness: the result of filterUsers on fOut
    fReapplied,     \* filter harness: filterUsers has been applied to fOut
    sUsers,         \* sort harness: the record set handed to sortUsers
    sConfig,        \* sort harness: the sortConfig handed to sortUsers
    sOut,           \* sort harness: the result of sortUsers
    sApplied,       \* sort harness: sortUsers has been applied
    pData,          \* pagination harness: the sequence handed to paginateData
    pPage,          \* pagination harness: the page asked for
    pSize,          \* pagination harness: the page size
    pOut,           \* pagination harness: the result of paginateData
    pPages,         \* pagination harness: pages 1..ceil(len / size), in order
    pApplied        \* pagination harness: paginateData has been applied

vars == <<users, loading, error, searchQuery, debouncedQuery, sortConfig,
          currentPage, mounted, timers, timer, attempts, queryHistory,
          fUsers, fQuery, fOut, fApplied, fAgain, fReapplied,
          sUsers, sConfig, sOut, sApplied,
          pData, pPage, pSize, pOut, pPages, pApplied>>

viewVars == <<users, loading, error, searchQuery, debouncedQuery, sortConfig,
              currentPage, mounted, timers, timer, attempts, queryHistory>>

filterVars == <<fUsers, fQuery, fOut, fApplied, fAgain, fReapplied>>

sortVars == <<sUsers, sConfig, sOut, sApplied>>

pageVars == <<pData, pPage, pSize, pOut, pPages, pApplied>>

harnessVars == <<filterVars, sortVars, pageVars>>

(***************************************************************************)
(* Bounds of the model.                                                    *)
(***************************************************************************)
\* Longest record set drawn for the pure-function harness.
MaxUsers == 2

(***************************************************************************)
(* Program constants.                                                      *)
(***************************************************************************)
pageSize == 5

\* error === null
NoError == "null"

SortKeys == {"name.first", "gender", "dob.age", "email"}

(***************************************************************************)
(* Strings.                                                                *)
(***************************************************************************)
EmptyStr == <<>>
STR_male == <<109, 97, 108, 101>>                   \* "male"
STR_female == <<102, 101, 109, 97, 108, 101>>       \* "female"

\* The code units String.prototype.trim removes: White_Space and LineTerminator
\* of ECMAScript (TAB, LF, VT, FF, CR, SPACE, NBSP, the Unicode Zs class, LS, PS, BOM).
WhiteSpace ==
    {9, 10, 11, 12, 13, 32, 160, 5760, 8232, 8233, 8239, 8287, 12288, 65279}
        \cup (8192..8202)

Min(S) == CHOOSE x \in S : \A y \in S : x <= y
Max(S) == CHOOSE x \in S : \A y \in S : x >= y

\* String.prototype.trim
trim(s) ==
    LET keep == {i \in 1..Len(s) : s[i] \notin WhiteSpace}
    IN  IF keep = {} THEN EmptyStr ELSE SubSeq(s, Min(keep), Max(keep))

\* String.prototype.includes
includes(s, sub) ==
    \E i \in 0..(Len(s) - Len(sub)) : SubSeq(s, i + 1, i + Len(sub)) = sub

\* The simple lower-case mappings of Unicode (UnicodeData.txt, Unicode 17), as
\* <<first, last, step, delta>>: the code points first, first + step, .. last
\* map to themselves plus delta.
LowerRanges ==
    {<<65, 90, 1, 32>>, <<192, 214, 1, 32>>, <<216, 222, 1, 32>>,
     <<256, 302, 2, 1>>, <<306, 310, 2, 1>>, <<313, 327, 2, 1>>,
     <<330, 374, 2, 1>>, <<376, 376, 1, -121>>, <<377, 381, 2, 1>>,
     <<385, 385, 1, 210>>, <<386, 388, 2, 1>>, <<390, 390, 1, 206>>,
     <<391, 391, 1, 1>>, <<393, 394, 1, 205>>, <<395, 395, 1, 1>>,
     <<398, 398, 1, 79>>, <<399, 399, 1, 202>>, <<400, 400, 1, 203>>,
     <<401, 401, 1, 1>>, <<403, 403, 1, 205>>, <<404, 404, 1, 207>>,
     <<406, 406, 1, 211>>, <<407, 407, 1, 209>>, <<408, 408, 1, 1>>,
     <<412, 412, 1, 211>>, <<413, 413, 1, 213>>, <<415, 415, 1, 214>>,
     <<416, 420, 2, 1>>, <<422, 422, 1, 218>>, <<423, 423, 1, 1>>,
     <<425, 425, 1, 218>>, <<428, 428, 1, 1>>, <<430, 430, 1, 218>>,
     <<431, 431, 1, 1>>, <<433, 434, 1, 217>>, <<435, 437, 2, 1>>,
     <<439, 439, 1, 219>>, <<440, 440, 1, 1>>, <<444, 444, 1, 1>>,
     <<452, 452, 1, 2>>, <<453, 453, 1, 1>>, <<455, 455, 1, 2>>,
     <<456, 456, 1, 1>>, <<458, 458, 1, 2>>, <<459, 475, 2, 1>>,
     <<478, 494, 2, 1>>, <<497, 497, 1, 2>>, <<498, 500, 2, 1>>,
     <<502, 502, 1, -97>>, <<503, 503, 1, -56>>, <<504, 542, 2, 1>>,
     <<544, 544, 1, -130>>, <<546, 562, 2, 1>>, <<570, 570, 1, 10795>>,
     <<571, 571, 1, 1>>, <<573, 573, 1, -163>>, <<574, 574, 1, 10792>>,
     <<577, 577, 1, 1>>, <<579, 579, 1, -195>>, <<580, 580, 1, 69>>,
     <<581, 581, 1, 71>>, <<582, 590, 2, 1>>, <<880, 882, 2, 1>>,
     <<886, 886, 1, 1>>, <<895, 895, 1, 116>>, <<902, 902, 1, 38>>,
     <<904, 906, 1, 37>>, <<908, 908, 1, 64>>, <<910, 911, 1, 63>>,
     <<913, 929, 1, 32>>, <<931, 939, 1, 32>>, <<975, 975, 1, 8>>,
     <<984, 1006, 2, 1>>, <<1012, 1012, 1, -60>>, <<1015, 1015, 1, 1>>,
     <<1017, 1017, 1, -7>>, <<1018, 1018, 1, 1>>, <<1021, 1023, 1, -130>>,
     <<1024, 1039, 1, 80>>, <<1040, 1071, 1, 32>>, <<1120, 1152, 2, 1>>,
     <<1162, 1214, 2, 1>>, <<1216, 1216, 1, 15>>, <<1217, 1229, 2, 1>>,
     <<1232, 1326, 2, 1>>, <<1329, 1366, 1, 48>>, <<4256, 4293, 1, 7264>>,
     <<4295, 4295, 1, 7264>>, <<4301, 4301, 1, 7264>>,
     <<5024, 5103, 1, 38864>>, <<5104, 5109, 1, 8>>, <<7305, 7305, 1, 1>>,
     <<7312, 7354, 1, -3008>>, <<7357, 7359, 1, -3008>>, <<7680, 7828, 2, 1>>,
     <<7838, 7838, 1, -7615>>, <<7840, 7934, 2, 1>>, <<7944, 7951, 1, -8>>,
     <<7960, 7965, 1, -8>>, <<7976, 7983, 1, -8>>, <<7992, 7999, 1, -8>>,
     <<8008, 8013, 1, -8>>, <<8025, 8031, 2, -8>>, <<8040, 8047, 1, -8>>,
     <<8072, 8079, 1, -8>>, <<8088, 8095, 1, -8>>, <<8104, 8111, 1, -8>>,
     <<8120, 8121, 1, -8>>, <<8122, 8123, 1, -74>>, <<8124, 8124, 1, -9>>,
     <<8136, 8139, 1, -86>>, <<8140, 8140, 1, -9>>, <<8152, 8153, 1, -8>>,
     <<8154, 8155, 1, -100>>, <<8168, 8169, 1, -8>>, <<8170, 8171, 1, -112>>,
     <<8172, 8172, 1, -7>>, <<8184, 8185, 1, -128>>, <<8186, 8187, 1, -126>>,
     <<8188, 8188, 1, -9>>, <<8486, 8486, 1, -7517>>, <<8490, 8490, 1, -8383>>,
     <<8491, 8491, 1, -8262>>, <<8498, 8498, 1, 28>>, <<8544, 8559, 1, 16>>,
     <<8579, 8579, 1, 1>>, <<9398, 9423, 1, 26>>, <<11264, 11311, 1, 48>>,
     <<11360, 11360, 1, 1>>, <<11362, 11362, 1, -10743>>,
     <<11363, 11363, 1, -3814>>, <<11364, 11364, 1, -10727>>,
     <<11367, 11371, 2, 1>>, <<11373, 11373, 1, -10780>>,
     <<11374, 11374, 1, -10749>>, <<11375, 11375, 1, -10783>>,
     <<11376, 11376, 1, -10782>>, <<11378, 11378, 1, 1>>,
     <<11381, 11381, 1, 1>>, <<11390, 11391, 1, -10815>>,
     <<11392, 11490, 2, 1>>, <<11499, 11501, 2, 1>>, <<11506, 11506, 1, 1>>,
     <<42560, 42604, 2, 1>>, <<42624, 42650, 2, 1>>, <<42786, 42798, 2, 1>>,
     <<42802, 42862, 2, 1>>, <<42873, 42875, 2, 1>>,
     <<42877, 42877, 1, -35332>>, <<42878, 42886, 2, 1>>,
     <<42891, 42891, 1, 1>>, <<42893, 42893, 1, -42280>>,
     <<42896, 42898, 2, 1>>, <<42902, 42920, 2, 1>>,
     <<42922, 42922, 1, -42308>>, <<42923, 42923, 1, -42319>>,
     <<42924, 42924, 1, -42315>>, <<42925, 42925, 1, -42305>>,
     <<42926, 42926, 1, -42308>>, <<42928, 42928, 1, -42258>>,
     <<42929, 42929, 1, -42282>>, <<42930, 42930, 1, -42261>>,
     <<42931, 42931, 1, 928>>, <<42932, 42946, 2, 1>>,
     <<42948, 42948, 1, -48>>, <<42949, 42949, 1, -42307>>,
     <<42950, 42950, 1, -35384>>, <<42951, 42953, 2, 1>>,
     <<42955, 42955, 1, -42343>>, <<42956, 42970, 2, 1>>,
     <<42972, 42972, 1, -42561>>, <<42997, 42997, 1, 1>>,
     <<65313, 65338, 1, 32>>, <<66560, 66599, 1, 40>>, <<66736, 66771, 1, 40>>,
     <<66928, 66938, 1, 39>>, <<66940, 66954, 1, 39>>, <<66956, 66962, 1, 39>>,
     <<66964, 66965, 1, 39>>, <<68736, 68786, 1, 64>>, <<68944, 68965, 1, 32>>,
     <<71840, 71871, 1, 32>>, <<93760, 93791, 1, 32>>, <<93856, 93880, 1, 27>>,
     <<125184, 125217, 1, 34>>}

\* The cased letters that are not case-ignorable, as <<first, last>>.
CasedRanges ==
    {<<65, 90>>, <<97, 122>>, <<170, 170>>, <<181, 181>>, <<186, 186>>,
     <<192, 214>>, <<216, 246>>, <<248, 442>>, <<444, 447>>, <<452, 659>>,
     <<662, 687>>, <<880, 883>>, <<886, 887>>, <<891, 893>>, <<895, 895>>,
     <<902, 902>>, <<904, 906>>, <<908, 908>>, <<910, 929>>, <<931, 1013>>,
     <<1015, 1153>>, <<1162, 1327>>, <<1329, 1366>>, <<1376, 1416>>,
     <<4256, 4293>>, <<4295, 4295>>, <<4301, 4301>>, <<4304, 4346>>,
     <<4349, 4351>>, <<5024, 5109>>, <<5112, 5117>>, <<7296, 7306>>,
     <<7312, 7354>>, <<7357, 7359>>, <<7424, 7467>>, <<7531, 7543>>,
     <<7545, 7578>>, <<7680, 7957>>, <<7960, 7965>>, <<7968, 8005>>,
     <<8008, 8013>>, <<8016, 8023>>, <<8025, 8025>>, <<8027, 8027>>,
     <<8029, 8029>>, <<8031, 8061>>, <<8064, 8116>>, <<8118, 8124>>,
     <<8126, 8126>>, <<8130, 8132>>, <<8134, 8140>>, <<8144, 8147>>,
     <<8150, 8155>>, <<8160, 8172>>, <<8178, 8180>>, <<8182, 8188>>,
     <<8450, 8450>>, <<8455, 8455>>, <<8458, 8467>>, <<8469, 8469>>,
     <<8473, 8477>>, <<8484, 8484>>, <<8486, 8486>>, <<8488, 8488>>,
     <<8490, 8493>>, <<8495, 8500>>, <<8505, 8505>>, <<8508, 8511>>,
     <<8517, 8521>>, <<8526, 8526>>, <<8544, 8575>>, <<8579, 8580>>,
     <<9398, 9449>>, <<11264, 11387>>, <<11390, 11492>>, <<11499, 11502>>,
     <<11506, 11507>>, <<11520, 11557>>, <<11559, 11559>>, <<11565, 11565>>,
     <<42560, 42605>>, <<42624, 42651>>, <<42786, 42863>>, <<42865, 42887>>,
     <<42891, 42894>>, <<42896, 42972>>, <<42997, 42998>>, <<43002, 43002>>,
     <<43824, 43866>>, <<43872, 43880>>, <<43888, 43967>>, <<64256, 64262>>,
     <<64275, 64279>>, <<65313, 65338>>, <<65345, 65370>>, <<66560, 66639>>,
     <<66736, 66771>>, <<66776, 66811>>, <<66928, 66938>>, <<66940, 66954>>,
     <<66956, 66962>>, <<66964, 66965>>, <<66967, 66977>>, <<66979, 66993>>,
     <<66995, 67001>>, <<67003, 67004>>, <<68736, 68786>>, <<68800, 68850>>,
     <<68944, 68965>>, <<68976, 68997>>, <<71840, 71903>>, <<93760, 93823>>,
     <<93856, 93880>>, <<93883, 93907>>, <<119808, 119892>>,
     <<119894, 119964>>, <<119966, 119967>>, <<119970, 119970>>,
     <<119973, 119974>>, <<119977, 119980>>, <<119982, 119993>>,
     <<119995, 119995>>, <<119997, 120003>>, <<120005, 120069>>,
     <<120071, 120074>>, <<120077, 120084>>, <<120086, 120092>>,
     <<120094, 120121>>, <<120123, 120126>>, <<120128, 120132>>,
     <<120134, 120134>>, <<120138, 120144>>, <<120146, 120485>>,
     <<120488, 120512>>, <<120514, 120538>>, <<120540, 120570>>,
     <<120572, 120596>>, <<120598, 120628>>, <<120630, 120654>>,
     <<120656, 120686>>, <<120688, 120712>>, <<120714, 120744>>,
     <<120746, 120770>>, <<120772, 120779>>, <<122624, 122633>>,
     <<122635, 122654>>, <<122661, 122666>>, <<125184, 125251>>,
     <<127280, 127305>>, <<127312, 127337>>, <<127344, 127369>>}

\* The case-ignorable code points (Mn, Me, Cf, Lm, Sk and the word-break
\* classes MidLetter, MidNumLet, Single_Quote), as <<first, last>>.
CaseIgnorableRanges ==
    {<<39, 39>>, <<46, 46>>, <<58, 58>>, <<94, 94>>, <<96, 96>>, <<168, 168>>,
     <<173, 173>>, <<175, 175>>, <<180, 180>>, <<183, 184>>, <<688, 879>>,
     <<884, 885>>, <<890, 890>>, <<900, 901>>, <<903, 903>>, <<1155, 1161>>,
     <<1369, 1369>>, <<1375, 1375>>, <<1425, 1469>>, <<1471, 1471>>,
     <<1473, 1474>>, <<1476, 1477>>, <<1479, 1479>>, <<1524, 1524>>,
     <<1536, 1541>>, <<1552, 1562>>, <<1564, 1564>>, <<1600, 1600>>,
     <<1611, 1631>>, <<1648, 1648>>, <<1750, 1757>>, <<1759, 1768>>,
     <<1770, 1773>>, <<1807, 1807>>, <<1809, 1809>>, <<1840, 1866>>,
     <<1958, 1968>>, <<2027, 2037>>, <<2042, 2042>>, <<2045, 2045>>,
     <<2070, 2093>>, <<2137, 2139>>, <<2184, 2184>>, <<2192, 2193>>,
     <<2199, 2207>>, <<2249, 2306>>, <<2362, 2362>>, <<2364, 2364>>,
     <<2369, 2376>>, <<2381, 2381>>, <<2385, 2391>>, <<2402, 2403>>,
     <<2417, 2417>>, <<2433, 2433>>, <<2492, 2492>>, <<2497, 2500>>,
     <<2509, 2509>>, <<2530, 2531>>, <<2558, 2558>>, <<2561, 2562>>,
     <<2620, 2620>>, <<2625, 2626>>, <<2631, 2632>>, <<2635, 2637>>,
     <<2641, 2641>>, <<2672, 2673>>, <<2677, 2677>>, <<2689, 2690>>,
     <<2748, 2748>>, <<2753, 2757>>, <<2759, 2760>>, <<2765, 2765>>,
     <<2786, 2787>>, <<2810, 2815>>, <<2817, 2817>>, <<2876, 2876>>,
     <<2879, 2879>>, <<2881, 2884>>, <<2893, 2893>>, <<2901, 2902>>,
     <<2914, 2915>>, <<2946, 2946>>, <<3008, 3008>>, <<3021, 3021>>,
     <<3072, 3072>>, <<3076, 3076>>, <<3132, 3132>>, <<3134, 3136>>,
     <<3142, 3144>>, <<3146, 3149>>, <<3157, 3158>>, <<3170, 3171>>,
     <<3201, 3201>>, <<3260, 3260>>, <<3263, 3263>>, <<3270, 3270>>,
     <<3276, 3277>>, <<3298, 3299>>, <<3328, 3329>>, <<3387, 3388>>,
     <<3393, 3396>>, <<3405, 3405>>, <<3426, 3427>>, <<3457, 3457>>,
     <<3530, 3530>>, <<3538, 3540>>, <<3542, 3542>>, <<3633, 3633>>,
     <<3636, 3642>>, <<3654, 3662>>, <<3761, 3761>>, <<3764, 3772>>,
     <<3782, 3782>>, <<3784, 3790>>, <<3864, 3865>>, <<3893, 3893>>,
     <<3895, 3895>>, <<3897, 3897>>, <<3953, 3966>>, <<3968, 3972>>,
     <<3974, 3975>>, <<3981, 3991>>, <<3993, 4028>>, <<4038, 4038>>,
     <<4141, 4144>>, <<4146, 4151>>, <<4153, 4154>>, <<4157, 4158>>,
     <<4184, 4185>>, <<4190, 4192>>, <<4209, 4212>>, <<4226, 4226>>,
     <<4229, 4230>>, <<4237, 4237>>, <<4253, 4253>>, <<4348, 4348>>,
     <<4957, 4959>>, <<5906, 5908>>, <<5938, 5939>>, <<5970, 5971>>,
     <<6002, 6003>>, <<6068, 6069>>, <<6071, 6077>>, <<6086, 6086>>,
     <<6089, 6099>>, <<6103, 6103>>, <<6109, 6109>>, <<6155, 6159>>,
     <<6211, 6211>>, <<6277, 6278>>, <<6313, 6313>>, <<6432, 6434>>,
     <<6439, 6440>>, <<6450, 6450>>, <<6457, 6459>>, <<6679, 6680>>,
     <<6683, 6683>>, <<6742, 6742>>, <<6744, 6750>>, <<6752, 6752>>,
     <<6754, 6754>>, <<6757, 6764>>, <<6771, 6780>>, <<6783, 6783>>,
     <<6823, 6823>>, <<6832, 6877>>, <<6880, 6891>>, <<6912, 6915>>,
     <<6964, 6964>>, <<6966, 6970>>, <<6972, 6972>>, <<6978, 6978>>,
     <<7019, 7027>>, <<7040, 7041>>, <<7074, 7077>>, <<7080, 7081>>,
     <<7083, 7085>>, <<7142, 7142>>, <<7144, 7145>>, <<7149, 7149>>,
     <<7151, 7153>>, <<7212, 7219>>, <<7222, 7223>>, <<7288, 7293>>,
     <<7376, 7378>>, <<7380, 7392>>, <<7394, 7400>>, <<7405, 7405>>,
     <<7412, 7412>>, <<7416, 7417>>, <<7468, 7530>>, <<7544, 7544>>,
     <<7579, 7679>>, <<8125, 8125>>, <<8127, 8129>>, <<8141, 8143>>,
     <<8157, 8159>>, <<8173, 8175>>, <<8189, 8190>>, <<8203, 8207>>,
     <<8216, 8217>>, <<8228, 8228>>, <<8231, 8231>>, <<8234, 8238>>,
     <<8288, 8292>>, <<8294, 8303>>, <<8305, 8305>>, <<8319, 8319>>,
     <<8336, 8348>>, <<8400, 8432>>, <<11388, 11389>>, <<11503, 11505>>,
     <<11631, 11631>>, <<11647, 11647>>, <<11744, 11775>>, <<11823, 11823>>,
     <<12293, 12293>>, <<12330, 12333>>, <<12337, 12341>>, <<12347, 12347>>,
     <<12441, 12446>>, <<12540, 12542>>, <<40981, 40981>>, <<42232, 42237>>,
     <<42508, 42508>>, <<42607, 42610>>, <<42612, 42621>>, <<42623, 42623>>,
     <<42652, 42655>>, <<42736, 42737>>, <<42752, 42785>>, <<42864, 42864>>,
     <<42888, 42890>>, <<42993, 42996>>, <<43000, 43001>>, <<43010, 43010>>,
     <<43014, 43014>>, <<43019, 43019>>, <<43045, 43046>>, <<43052, 43052>>,
     <<43204, 43205>>, <<43232, 43249>>, <<43263, 43263>>, <<43302, 43309>>,
     <<43335, 43345>>, <<43392, 43394>>, <<43443, 43443>>, <<43446, 43449>>,
     <<43452, 43453>>, <<43471, 43471>>, <<43493, 43494>>, <<43561, 43566>>,
     <<43569, 43570>>, <<43573, 43574>>, <<43587, 43587>>, <<43596, 43596>>,
     <<43632, 43632>>, <<43644, 43644>>, <<43696, 43696>>, <<43698, 43700>>,
     <<43703, 43704>>, <<43710, 43711>>, <<43713, 43713>>, <<43741, 43741>>,
     <<43756, 43757>>, <<43763, 43764>>, <<43766, 43766>>, <<43867, 43871>>,
     <<43881, 43883>>, <<44005, 44005>>, <<44008, 44008>>, <<44013, 44013>>,
     <<64286, 64286>>, <<64434, 64450>>, <<65024, 65039>>, <<65043, 65043>>,
     <<65056, 65071>>, <<65106, 65106>>, <<65109, 65109>>, <<65279, 65279>>,
     <<65287, 65287>>, <<65294, 65294>>, <<65306, 65306>>, <<65342, 65342>>,
     <<65344, 65344>>, <<65392, 65392>>, <<65438, 65439>>, <<65507, 65507>>,
     <<65529, 65531>>, <<66045, 66045>>, <<66272, 66272>>, <<66422, 66426>>,
     <<67456, 67461>>, <<67463, 67504>>, <<67506, 67514>>, <<68097, 68099>>,
     <<68101, 68102>>, <<68108, 68111>>, <<68152, 68154>>, <<68159, 68159>>,
     <<68325, 68326>>, <<68900, 68903>>, <<68942, 68942>>, <<68969, 68973>>,
     <<68975, 68975>>, <<69291, 69292>>, <<69317, 69317>>, <<69370, 69375>>,
     <<69446, 69456>>, <<69506, 69509>>, <<69633, 69633>>, <<69688, 69702>>,
     <<69744, 69744>>, <<69747, 69748>>, <<69759, 69761>>, <<69811, 69814>>,
     <<69817, 69818>>, <<69821, 69821>>, <<69826, 69826>>, <<69837, 69837>>,
     <<69888, 69890>>, <<69927, 69931>>, <<69933, 69940>>, <<70003, 70003>>,
     <<70016, 70017>>, <<70070, 70078>>, <<70089, 70092>>, <<70095, 70095>>,
     <<70191, 70193>>, <<70196, 70196>>, <<70198, 70199>>, <<70206, 70206>>,
     <<70209, 70209>>, <<70367, 70367>>, <<70371, 70378>>, <<70400, 70401>>,
     <<70459, 70460>>, <<70464, 70464>>, <<70502, 70508>>, <<70512, 70516>>,
     <<70587, 70592>>, <<70606, 70606>>, <<70608, 70608>>, <<70610, 70610>>,
     <<70625, 70626>>, <<70712, 70719>>, <<70722, 70724>>, <<70726, 70726>>,
     <<70750, 70750>>, <<70835, 70840>>, <<70842, 70842>>, <<70847, 70848>>,
     <<70850, 70851>>, <<71090, 71093>>, <<71100, 71101>>, <<71103, 71104>>,
     <<71132, 71133>>, <<71219, 71226>>, <<71229, 71229>>, <<71231, 71232>>,
     <<71339, 71339>>, <<71341, 71341>>, <<71344, 71349>>, <<71351, 71351>>,
     <<71453, 71453>>, <<71455, 71455>>, <<71458, 71461>>, <<71463, 71467>>,
     <<71727, 71735>>, <<71737, 71738>>, <<71995, 71996>>, <<71998, 71998>>,
     <<72003, 72003>>, <<72148, 72151>>, <<72154, 72155>>, <<72160, 72160>>,
     <<72193, 72202>>, <<72243, 72248>>, <<72251, 72254>>, <<72263, 72263>>,
     <<72273, 72278>>, <<72281, 72283>>, <<72330, 72342>>, <<72344, 72345>>,
     <<72544, 72544>>, <<72546, 72548>>, <<72550, 72550>>, <<72752, 72758>>,
     <<72760, 72765>>, <<72767, 72767>>, <<72850, 72871>>, <<72874, 72880>>,
     <<72882, 72883>>, <<72885, 72886>>, <<73009, 73014>>, <<73018, 73018>>,
     <<73020, 73021>>, <<73023, 73029>>, <<73031, 73031>>, <<73104, 73105>>,
     <<73109, 73109>>, <<73111, 73111>>, <<73177, 73177>>, <<73459, 73460>>,
     <<73472, 73473>>, <<73526, 73530>>, <<73536, 73536>>, <<73538, 73538>>,
     <<73562, 73562>>, <<78896, 78912>>, <<78919, 78933>>, <<90398, 90409>>,
     <<90413, 90415>>, <<92912, 92916>>, <<92976, 92982>>, <<92992, 92995>>,
     <<93504, 93506>>, <<93547, 93548>>, <<94031, 94031>>, <<94095, 94111>>,
     <<94176, 94177>>, <<94179, 94180>>, <<94194, 94195>>, <<110576, 110579>>,
     <<110581, 110587>>, <<110589, 110590>>, <<113821, 113822>>,
     <<113824, 113827>>, <<118528, 118573>>, <<118576, 118598>>,
     <<119143, 119145>>, <<119155, 119170>>, <<119173, 119179>>,
     <<119210, 119213>>, <<119362, 119364>>, <<121344, 121398>>,
     <<121403, 121452>>, <<121461, 121461>>, <<121476, 121476>>,
     <<121499, 121503>>, <<121505, 121519>>, <<122880, 122886>>,
     <<122888, 122904>>, <<122907, 122913>>, <<122915, 122916>>,
     <<122918, 122922>>, <<122928, 122989>>, <<123023, 123023>>,
     <<123184, 123197>>, <<123566, 123566>>, <<123628, 123631>>,
     <<124139, 124143>>, <<124398, 124399>>, <<124643, 124643>>,
     <<124646, 124646>>, <<124654, 124655>>, <<124661, 124661>>,
     <<124671, 124671>>, <<125136, 125142>>, <<125252, 125259>>,
     <<127995, 127999>>, <<917505, 917505>>, <<917536, 917631>>,
     <<917760, 917999>>}

\* The code points of a string: a lead surrogate followed by a trail surrogate
\* is one code point, every other code unit is its own.
RECURSIVE codePoints(_)
codePoints(s) ==
    IF s = <<>> THEN <<>>
    ELSE IF Len(s) >= 2 /\ s[1] >= 55296 /\ s[1] <= 56319
                        /\ s[2] >= 56320 /\ s[2] <= 57343
        THEN <<65536 + (s[1] - 55296) * 1024 + (s[2] - 56320)>>
                 \o codePoints(SubSeq(s, 3, Len(s)))
    ELSE <<s[1]>> \o codePoints(Tail(s))

\* The UTF-16 code units of a code point.
codeUnits(cp) ==
    IF cp < 65536 THEN <<cp>>
    ELSE <<55296 + ((cp - 65536) \div 1024), 56320 + ((cp - 65536) % 1024)>>

isCased(cp) == \E r \in CasedRanges : r[1] <= cp /\ cp <= r[2]

isCaseIgnorable(cp) == \E r \in CaseIgnorableRanges : r[1] <= cp /\ cp <= r[2]

\* The simple lower-case mapping of one code point.  Of Basic Latin only A-Z
\* have one.
lowerChar(c) ==
    IF c < 128 THEN (IF c >= 65 /\ c <= 90 THEN c + 32 ELSE c)
    ELSE LET hit == {r \in LowerRanges :
                        r[1] <= c /\ c <= r[2] /\ (c - r[1]) % r[3] = 0}
         IN  IF hit = {} THEN c ELSE c + (CHOOSE r \in hit : TRUE)[4]

\* The condition Final_Sigma of SpecialCasing.txt at place i: going back over
\* the case-ignorable code points there is a cased letter, and going forward
\* over the case-ignorable code points there is none.
finalSigma(cps, i) ==
    LET before == {j \in 1..(i - 1) : ~isCaseIgnorable(cps[j])}
        after == {j \in (i + 1)..Len(cps) : ~isCaseIgnorable(cps[j])}
    IN  /\ before # {}
        /\ isCased(cps[Max(before)])
        /\ ~(after # {} /\ isCased(cps[Min(after)]))

\* The lower case of the code point at place i, as code units: U+0130 gives
\* two (i and the combining dot above), a final capital sigma gives the
\* final small sigma, every other code point its simple mapping.
lowerAt(cps, i) ==
    IF cps[i] = 304 THEN <<105, 775>>
    ELSE IF cps[i] = 931 /\ finalSigma(cps, i) THEN <<962>>
    ELSE codeUnits(lowerChar(cps[i]))

RECURSIVE lowerFrom(_, _)
lowerFrom(cps, i) ==
    IF i > Len(cps) THEN <<>> ELSE lowerAt(cps, i) \o lowerFrom(cps, i + 1)

\* String.prototype.toLowerCase
toLowerCase(s) == lowerFrom(codePoints(s), 1)

\* Number.prototype.toString for a non-negative integer: its decimal digits
RECURSIVE toString(_)
toString(n) ==
    IF n < 10 THEN <<48 + n>> ELSE toString(n \div 10) \o <<48 + (n % 10)>>

\* a < b on two strings: code-unit lexicographic order
RECURSIVE strLess(_, _)
strLess(a, b) ==
    IF b = <<>> THEN FALSE
    ELSE IF a = <<>> THEN TRUE
    ELSE IF a[1] # b[1] THEN a[1] < b[1]
    ELSE strLess(Tail(a), Tail(b))

(***************************************************************************)
(* src/utils/table-helpers.ts                                              *)
(***************************************************************************)
\* interface User (the fields the code reads)
User(g, f, l, e, a) ==
    [gender |-> g, name |-> [first |-> f, last |-> l], email |-> e,
     dob |-> [age |-> a]]

\* userMatches without the special case of the query "male" (line 32)
userMatches_NoGenderCase(user, searchStr) ==
    LET firstName == user.name.first
        lastName == user.name.last
        fullName == firstName \o <<32>> \o lastName
        gender == user.gender
        email == user.email
        age == toString(user.dob.age)
        genderMatch == includes(gender, searchStr)
    IN  \/ includes(firstName, searchStr)
        \/ includes(lastName, searchStr)
        \/ includes(fullName, searchStr)
        \/ genderMatch
        \/ includes(email, searchStr)
        \/ includes(age, searchStr)

\* userMatches without the test of "first last" (line 37)
userMatches_NoFullName(user, searchStr) ==
    LET firstName == user.name.first
        lastName == user.name.last
        gender == user.gender
        email == user.email
        age == toString(user.dob.age)
        genderMatch == IF searchStr = STR_male THEN gender = STR_male
                       ELSE includes(gender, searchStr)
    IN  \/ includes(firstName, searchStr)
        \/ includes(lastName, searchStr)
        \/ genderMatch
        \/ includes(email, searchStr)
        \/ includes(age, searchStr)

\* the callback of users.filter(...) in filterUsers, for a non-empty searchStr
userMatches(user, searchStr) ==
    LET firstName == user.name.first
        lastName == user.name.last
        fullName == firstName \o <<32>> \o lastName
        gender == user.gender
        email == user.email
        age == toString(user.dob.age)
        genderMatch == IF searchStr = STR_male THEN gender = STR_male
                       ELSE includes(gender, searchStr)
    IN  \/ includes(firstName, searchStr)
        \/ includes(lastName, searchStr)
        \/ includes(fullName, searchStr)
        \/ genderMatch
        \/ includes(email, searchStr)
        \/ includes(age, searchStr)

\* filterUsers without the trim of line 19
filterUsers_NoTrim(us, query) ==
    LET searchStr == query
        keep(user) == userMatches(user, searchStr)
    IN  IF searchStr = EmptyStr THEN us ELSE SelectSeq(us, keep)

\* filterUsers (lines 18-43)
filterUsers(us, query) ==
    LET searchStr == trim(query)
        keep(user) == userMatches(user, searchStr)
    IN  IF searchStr = EmptyStr THEN us ELSE SelectSeq(us, keep)

\* getSortValue without toLowerCase
getSortValue_NoLowerCase(user, key) ==
    CASE key = "name.first" -> user.name.first
      [] key = "gender" -> user.gender
      [] key = "dob.age" -> user.dob.age
      [] key = "email" -> user.email
      [] OTHER -> EmptyStr

\* getSortValue: a lower-cased string, or the age
getSortValue(user, key) ==
    CASE key = "name.first" -> toLowerCase(user.name.first)
      [] key = "gender" -> toLowerCase(user.gender)
      [] key = "dob.age" -> user.dob.age
      [] key = "email" -> toLowerCase(user.email)
      [] OTHER -> EmptyStr

\* aValue < bValue for two sort values of one key
valueLess(key, aValue, bValue) ==
    IF key = "dob.age" THEN aValue < bValue ELSE strLess(aValue, bValue)

\* the comparator handed to Array.prototype.sort in sortUsers
compareUsers(a, b, key, direction) ==
    LET aValue == getSortValue(a, key)
        bValue == getSortValue(b, key)
    IN  IF valueLess(key, aValue, bValue)
            THEN (IF direction = "asc" THEN -1 ELSE 1)
        ELSE IF valueLess(key, bValue, aValue)
            THEN (IF direction = "asc" THEN 1 ELSE -1)
        ELSE 0

\* Array.prototype.sort (stable since ES2019): insert x after every element
\* that does not compare greater than it
RECURSIVE insertSorted(_, _, _, _)
insertSorted(sorted, x, key, direction) ==
    IF sorted = <<>> THEN <<x>>
    ELSE IF compareUsers(x, sorted[Len(sorted)], key, direction) >= 0
        THEN Append(sorted, x)
    ELSE Append(insertSorted(SubSeq(sorted, 1, Len(sorted) - 1), x, key, direction),
                sorted[Len(sorted)])

RECURSIVE arraySort(_, _, _)
arraySort(us, key, direction) ==
    IF us = <<>> THEN <<>>
    ELSE insertSorted(arraySort(SubSeq(us, 1, Len(us) - 1), key, direction),
                      us[Len(us)], key, direction)

sortUsers(us, config) ==
    IF config.direction = "null" THEN us
    ELSE arraySort(us, config.key, config.direction)

\* the elements of a sequence
Range(s) == {s[i] : i \in 1..Len(s)}

\* the orders of a sequence of distinct elements
orderings(s) ==
    {p \in [1..Len(s) -> Range(s)] : \A i, j \in 1..Len(s) : i # j => p[i] # p[j]}

\* Array.prototype.sort of a host older than ES2019, which need not be stable:
\* every order the comparator accepts, elements that compare 0 in any order
unstableSort(us, key, direction) ==
    {p \in orderings(us) :
        \A i \in 1..(Len(p) - 1) : compareUsers(p[i], p[i + 1], key, direction) <= 0}

\* sortUsers on such a host: the results it can return
sortUsersUnstableHost(us, config) ==
    IF config.direction = "null" THEN {us}
    ELSE unstableSort(us, config.key, config.direction)

\* slice with its end one short
slice_EndShort(data, start, end) ==
    LET len == Len(data)
        from == IF start < 0 THEN Max({len + start, 0}) ELSE Min({start, len})
        to == IF end < 0 THEN Max({len + end, 0}) ELSE Min({end - 1, len})
    IN  SubSeq(data, from + 1, to)

\* Array.prototype.slice(start, end): negative indexes count from the end
slice(data, start, end) ==
    LET len == Len(data)
        from == IF start < 0 THEN Max({len + start, 0}) ELSE Min({start, len})
        to == IF end < 0 THEN Max({len + end, 0}) ELSE Min({end, len})
    IN  SubSeq(data, from + 1, to)

paginateData(data, page, size) ==
    LET start == (page - 1) * size
    IN  slice(data, start, start + size)

(***************************************************************************)
(* Inputs of the model.                                                    *)
(***************************************************************************)
\* A response of two records (the example of the specification).
SmallBatch ==
    << User(STR_female, <<65, 109, 121>>, <<76, 101, 101>>,
            <<97, 64, 120, 46, 99, 111, 109>>, 30),      \* Amy Lee a@x.com
       User(STR_male, <<66, 111>>, <<82, 97, 121>>,
            <<98, 64, 120, 46, 99, 111, 109>>, 25) >>    \* Bo Ray b@x.com

\* A response of eleven records: three pages.
BigBatch ==
    << User(STR_male, <<97, 98, 101>>, <<111, 114, 114>>, <<117, 49, 64, 120, 46, 105, 111>>, 30),     \* abe orr u1@x.io
       User(STR_female, <<97, 98, 98, 121>>, <<112, 111, 101>>, <<117, 50, 64, 120, 46, 105, 111>>, 41), \* abby poe u2@x.io
       User(STR_male, <<99, 121>>, <<111, 114, 114>>, <<117, 51, 64, 120, 46, 105, 111>>, 25),          \* cy orr u3@x.io
       User(STR_female, <<100, 101, 101>>, <<107, 105, 109>>, <<117, 52, 64, 120, 46, 105, 111>>, 52),  \* dee kim u4@x.io
       User(STR_male, <<101, 108, 105>>, <<112, 111, 101>>, <<117, 53, 64, 120, 46, 105, 111>>, 25),    \* eli poe u5@x.io
       User(STR_female, <<102, 108, 111>>, <<111, 114, 114>>, <<117, 54, 64, 120, 46, 105, 111>>, 33),  \* flo orr u6@x.io
       User(STR_male, <<103, 117, 115>>, <<107, 105, 109>>, <<117, 55, 64, 120, 46, 105, 111>>, 47),    \* gus kim u7@x.io
       User(STR_female, <<104, 97, 108>>, <<112, 111, 101>>, <<117, 56, 64, 120, 46, 105, 111>>, 61),   \* hal poe u8@x.io
       User(STR_male, <<73, 97, 110>>, <<111, 114, 114>>, <<117, 57, 64, 120, 46, 105, 111>>, 30),      \* Ian orr u9@x.io
       User(STR_female, <<106, 111, 121>>, <<107, 105, 109>>, <<118, 49, 64, 120, 46, 105, 111>>, 28),  \* joy kim v1@x.io
       User(STR_male, <<107, 97, 105>>, <<112, 111, 101>>, <<118, 50, 64, 120, 46, 105, 111>>, 39) >>   \* kai poe v2@x.io

\* data.results of a parsed response
Batches == {SmallBatch, BigBatch}

\* What the user types into the search input.
Queries == {EmptyStr, <<97>>, <<97, 98>>, <<97, 98, 32>>, STR_male}   \* "", "a", "ab", "ab ", "male"

\* err.message of the TypeError a rejected fetch() carries: the text is the
\* host's (Chromium, Node.js).
NetworkErrorMessages == {"Failed to fetch", "fetch failed"}

\* Response bodies that are not JSON.
UnparseableBodies == {"", "<html>", "<p>"}

\* The hosts whose text of a rejected response.json() is modelled: a Chromium
\* browser, Node.js 20 and later, Node.js 18.
Hosts == {"Chromium", "Node.js 20", "Node.js 18"}

\* err.message of the SyntaxError response.json() rejects with on a body that
\* is empty or a short text beginning with "<".  The text is the host's: V8 of
\* Node.js 18 names the token and its position, V8 of Node.js 20 quotes the
\* body, Chromium puts the name of the failed call before V8's text.
ParseErrorMessage(host, body) ==
    LET positioned ==
            IF body = "" THEN "Unexpected end of JSON input"
            ELSE "Unexpected token < in JSON at position 0"
        quoting ==
            IF body = "" THEN "Unexpected end of JSON input"
            ELSE "Unexpected token '<', \"" \o body \o "\" is not valid JSON"
    IN  CASE host = "Node.js 18" -> positioned
          [] host = "Node.js 20" -> quoting
          [] host = "Chromium" ->
                "Failed to execute 'json' on 'Response': " \o quoting

(***************************************************************************)
(* src/components/DataTable.tsx: the derived values of one render.         *)
(***************************************************************************)
filteredUsers == filterUsers(users, debouncedQuery)
sortedUsers == sortUsers(filteredUsers, sortConfig)
paginatedUsers == paginateData(sortedUsers, currentPage, pageSize)

\* Math.ceil(sortedUsers.length / pageSize)
totalPages == (Len(sortedUsers) + pageSize - 1) \div pageSize

\* The table, the search input and the buttons are rendered only past the two
\* early returns of the render (loading, error).
tableRendered == mounted /\ ~loading /\ error = NoError

\* FetchState.status of the specification, read off loading and error
status == IF loading THEN "loading" ELSE IF error # NoError THEN "failed" ELSE "ready"

(***************************************************************************)
(* Timers of the host (setTimeout / clearTimeout).                         *)
(***************************************************************************)
\* a handle no pending timer has
newTimerId(ts) ==
    Min({i \in 1..(Cardinality(ts) + 1) : \A t \in ts : t.id # i})

setTimeout(ts, id, value) == ts \cup {[id |-> id, value |-> value]}

\* clearTimeout that cancels nothing
clearTimeout_Noop(ts, id) == ts

clearTimeout(ts, id) == {t \in ts : t.id # id}

(***************************************************************************)
(* src/components/DataTable.tsx: the debounce effect (lines 50-56).        *)
(***************************************************************************)
\* The effect runs again for a new searchQuery: the cleanup of the previous run
\* clears its timer, the new run schedules setDebouncedQuery(q).
runDebounceEffect(q) ==
    LET cleared == clearTimeout(timers, timer)
        id == newTimerId(cleared)
    IN  /\ timers' = setTimeout(cleared, id, q)
        /\ timer' = id

\* onChange without setCurrentPage(1)
onChange_NoPageReset(q) ==
    /\ tableRendered
    /\ searchQuery' = q
    /\ queryHistory' = queryHistory \cup {q}
    /\ IF q # searchQuery THEN runDebounceEffect(q) ELSE UNCHANGED <<timers, timer>>
    /\ UNCHANGED <<users, loading, error, debouncedQuery, sortConfig, currentPage,
                   mounted, attempts>>

\* onChange of the search input (lines 126-129), with the effect its render
\* triggers when searchQuery changed (deps [searchQuery])
onChange(q) ==
    /\ tableRendered
    /\ searchQuery' = q
    /\ currentPage' = 1
    /\ queryHistory' = queryHistory \cup {q}
    /\ IF q # searchQuery THEN runDebounceEffect(q) ELSE UNCHANGED <<timers, timer>>
    /\ UNCHANGED <<users, loading, error, debouncedQuery, sortConfig, mounted, attempts>>

\* a timer callback that commits nothing
TimerFires_NoCommit(t) ==
    /\ t \in timers
    /\ timers' = timers \ {t}
    /\ UNCHANGED <<users, loading, error, searchQuery, debouncedQuery, sortConfig,
                   currentPage, mounted, timer, attempts, queryHistory>>

\* a timer callback that commits the trimmed query
TimerFires_Trimmed(t) ==
    /\ t \in timers
    /\ timers' = timers \ {t}
    /\ debouncedQuery' = IF mounted THEN trim(t.value) ELSE debouncedQuery
    /\ UNCHANGED <<users, loading, error, searchQuery, sortConfig, currentPage,
                   mounted, timer, attempts, queryHistory>>

\* the timer callback (line 52): setDebouncedQuery(searchQuery) with the
\* searchQuery of the render that scheduled it
TimerFires(t) ==
    /\ t \in timers
    /\ timers' = timers \ {t}
    /\ debouncedQuery' = IF mounted THEN t.value ELSE debouncedQuery
    /\ UNCHANGED <<users, loading, error, searchQuery, sortConfig, currentPage,
                   mounted, timer, attempts, queryHistory>>

(***************************************************************************)
(* handleSort and the pagination buttons.                                  *)
(***************************************************************************)
\* handleSort that never flips the direction
handleSort_AlwaysAsc(key) ==
    /\ tableRendered
    /\ sortConfig' = [key |-> key, direction |-> "asc"]
    /\ currentPage' = 1
    /\ UNCHANGED <<users, loading, error, searchQuery, debouncedQuery, mounted,
                   timers, timer, attempts, queryHistory>>

\* handleSort (lines 82-88)
handleSort(key) ==
    /\ tableRendered
    /\ sortConfig' =
         [key |-> key,
          direction |-> IF sortConfig.key = key /\ sortConfig.direction = "asc"
                        THEN "desc" ELSE "asc"]
    /\ currentPage' = 1
    /\ UNCHANGED <<users, loading, error, searchQuery, debouncedQuery, mounted,
                   timers, timer, attempts, queryHistory>>

\* the Previous button (lines 226-228): disabled on page 1
PreviousPage ==
    /\ tableRendered
    /\ currentPage # 1
    /\ currentPage' = Max({currentPage - 1, 1})
    /\ UNCHANGED <<users, loading, error, searchQuery, debouncedQuery, sortConfig,
                   mounted, timers, timer, attempts, queryHistory>>

\* the Next button (lines 237-239): disabled on the last page and on no page
NextPage ==
    /\ tableRendered
    /\ ~(currentPage = totalPages \/ totalPages = 0)
    /\ currentPage' = Min({currentPage + 1, totalPages})
    /\ UNCHANGED <<users, loading, error, searchQuery, debouncedQuery, sortConfig,
                   mounted, timers, timer, attempts, queryHistory>>

(***************************************************************************)
(* The fetch effect (lines 58-80): fetchUsers, one call per effect run.    *)
(***************************************************************************)
newAttempt == [pc |-> "fetch", aborted |-> FALSE]

pendingAttempt(i) ==
    /\ i \in 1..Len(attempts)
    /\ attempts[i].pc \in {"fetch", "json"}

finish(i) == [attempts EXCEPT ![i].pc = "done"]

\* await fetch(...) resolves with a response (line 63); a response that is
\* not ok throws (line 66), is caught (line 71) and ends in finally (line 73)
FetchResolves(i, ok) ==
    /\ pendingAttempt(i)
    /\ attempts[i].pc = "fetch"
    /\ ~attempts[i].aborted
    /\ IF ok
       THEN /\ attempts' = [attempts EXCEPT ![i].pc = "json"]
            /\ UNCHANGED <<error, loading>>
       ELSE /\ attempts' = finish(i)
            /\ error' = IF mounted THEN "Failed to fetch data" ELSE error
            /\ loading' = IF mounted THEN FALSE ELSE loading
    /\ UNCHANGED <<users, searchQuery, debouncedQuery, sortConfig, currentPage,
                   mounted, timers, timer, queryHistory>>

\* a rejected fetch whose handler has no finally block: loading stays set
FetchRejects_NoFinally(i, message) ==
    /\ pendingAttempt(i)
    /\ attempts[i].pc = "fetch"
    /\ ~attempts[i].aborted
    /\ attempts' = finish(i)
    /\ error' = IF mounted THEN message ELSE error
    /\ UNCHANGED <<users, loading, searchQuery, debouncedQuery, sortConfig,
                   currentPage, mounted, timers, timer, queryHistory>>

\* await fetch(...) rejects with a network error (lines 69-73)
FetchRejects(i, message) ==
    /\ pendingAttempt(i)
    /\ attempts[i].pc = "fetch"
    /\ ~attempts[i].aborted
    /\ attempts' = finish(i)
    /\ error' = IF mounted THEN message ELSE error
    /\ loading' = IF mounted THEN FALSE ELSE loading
    /\ UNCHANGED <<users, searchQuery, debouncedQuery, sortConfig, currentPage,
                   mounted, timers, timer, queryHistory>>

\* await response.json() resolves (lines 67-68), then finally (line 73)
JsonResolves(i, batch) ==
    /\ pendingAttempt(i)
    /\ attempts[i].pc = "json"
    /\ ~attempts[i].aborted
    /\ attempts' = finish(i)
    /\ users' = IF mounted THEN batch ELSE users
    /\ loading' = IF mounted THEN FALSE ELSE loading
    /\ UNCHANGED <<error, searchQuery, debouncedQuery, sortConfig, currentPage,
                   mounted, timers, timer, queryHistory>>

\* await response.json() rejects on a body that does not parse (lines 69-73)
JsonRejects(i, body) ==
    /\ pendingAttempt(i)
    /\ attempts[i].pc = "json"
    /\ ~attempts[i].aborted
    /\ attempts' = finish(i)
    /\ \E host \in Hosts :
           error' = IF mounted THEN ParseErrorMessage(host, body) ELSE error
    /\ loading' = IF mounted THEN FALSE ELSE loading
    /\ UNCHANGED <<users, searchQuery, debouncedQuery, sortConfig, currentPage,
                   mounted, timers, timer, queryHistory>>

\* a catch without the AbortError return of line 70: the abort is reported
AbortRejects_Reported(i) ==
    /\ pendingAttempt(i)
    /\ attempts[i].aborted
    /\ attempts' = finish(i)
    /\ error' = IF mounted THEN "The user aborted a request." ELSE error
    /\ loading' = IF mounted THEN FALSE ELSE loading
    /\ UNCHANGED <<users, searchQuery, debouncedQuery, sortConfig,
                   currentPage, mounted, timers, timer, queryHistory>>

\* the pending await of an aborted attempt rejects with an AbortError: the
\* catch returns (line 70) and the finally block still runs (line 73)
AbortRejects(i) ==
    /\ pendingAttempt(i)
    /\ attempts[i].aborted
    /\ attempts' = finish(i)
    /\ loading' = IF mounted THEN FALSE ELSE loading
    /\ UNCHANGED <<users, error, searchQuery, debouncedQuery, sortConfig,
                   currentPage, mounted, timers, timer, queryHistory>>

(***************************************************************************)
(* Effect lifecycle.                                                       *)
(***************************************************************************)
\* the state right after the mount: both effects have run once
justMounted ==
    /\ mounted
    /\ loading
    /\ attempts = <<newAttempt>>
    /\ timers = {[id |-> 1, value |-> EmptyStr]}

\* React StrictMode (development): inside the mount, every effect is cleaned
\* up and run again, the state kept. The cleanups clear the timer (line 55)
\* and abort the controller (line 79); the second runs schedule a new timer
\* and start a new fetchUsers().
StrictModeReplay ==
    /\ justMounted
    /\ runDebounceEffect(searchQuery)
    /\ attempts' = Append([attempts EXCEPT ![1].aborted = TRUE], newAttempt)
    /\ UNCHANGED <<users, loading, error, searchQuery, debouncedQuery, sortConfig,
                   currentPage, mounted, queryHistory>>

\* the unmount: both cleanups run (lines 55 and 79) and React drops the state
Unmount ==
    /\ mounted
    /\ mounted' = FALSE
    /\ timers' = clearTimeout(timers, timer)
    /\ attempts' = [attempts EXCEPT ![Len(attempts)].aborted = TRUE]
    /\ UNCHANGED <<users, loading, error, searchQuery, debouncedQuery, sortConfig,
                   currentPage, timer, queryHistory>>

(***************************************************************************)
(* The component.                                                          *)
(***************************************************************************)
\* the state after the first render and its effects (lines 37-80)
ViewInit ==
    /\ users = <<>>
    /\ loading = TRUE
    /\ error = NoError
    /\ searchQuery = EmptyStr
    /\ debouncedQuery = EmptyStr
    /\ sortConfig = [key |-> "name.first", direction |-> "asc"]
    /\ currentPage = 1
    /\ mounted = TRUE
    /\ timers = {[id |-> 1, value |-> EmptyStr]}
    /\ timer = 1
    /\ attempts = <<newAttempt>>
    /\ queryHistory = {EmptyStr}

FilterIdle ==
    /\ fUsers = <<>>
    /\ fQuery = EmptyStr
    /\ fOut = <<>>
    /\ fApplied = FALSE
    /\ fAgain = <<>>
    /\ fReapplied = FALSE

SortIdle ==
    /\ sUsers = <<>>
    /\ sConfig = [key |-> "name.first", direction |-> "asc"]
    /\ sOut = <<>>
    /\ sApplied = FALSE

PageIdle ==
    /\ pData = <<>>
    /\ pPage = 1
    /\ pSize = pageSize
    /\ pOut = <<>>
    /\ pPages = <<>>
    /\ pApplied = FALSE

HarnessIdle == FilterIdle /\ SortIdle /\ PageIdle

Init == ViewInit /\ HarnessIdle

\* one event of the component: the harness is idle
Next ==
    \/ (\E q \in Queries : onChange(q)) /\ UNCHANGED harnessVars
    \/ (\E t \in timers : TimerFires(t)) /\ UNCHANGED harnessVars
    \/ (\E key \in SortKeys : handleSort(key)) /\ UNCHANGED harnessVars
    \/ PreviousPage /\ UNCHANGED harnessVars
    \/ NextPage /\ UNCHANGED harnessVars
    \/ (\E i \in 1..Len(attempts) : \E ok \in BOOLEAN : FetchResolves(i, ok))
          /\ UNCHANGED harnessVars
    \/ (\E i \in 1..Len(attempts), message \in NetworkErrorMessages :
            FetchRejects(i, message)) /\ UNCHANGED harnessVars
    \/ (\E i \in 1..Len(attempts) : \E batch \in Batches : JsonResolves(i, batch))
          /\ UNCHANGED harnessVars
    \/ (\E i \in 1..Len(attempts), body \in UnparseableBodies :
            JsonRejects(i, body)) /\ UNCHANGED harnessVars
    \/ (\E i \in 1..Len(attempts) : AbortRejects(i)) /\ UNCHANGED harnessVars
    \/ StrictModeReplay /\ UNCHANGED harnessVars
    \/ Unmount /\ UNCHANGED harnessVars

Spec == Init /\ [][Next]_vars

\* Handles 1..MaxPending are in use: the cleanup of the debounce effect clears
\* the previous timer before the next one is set.
MaxPending == 1

\* The timers setTimeout can have pending: a handle and the query it commits.
TimerRecords == [id : 1..MaxPending, value : Queries]

\* The host fires a timer that stays pending, that is, one that is set and not
\* cleared.  A timer that is cleared (by the next keystroke, by the unmount)
\* need not fire, so typing without a pause can go on with no callback run.
FairSpec ==
    Spec /\ \A t \in TimerRecords : WF_vars(TimerFires(t) /\ UNCHANGED harnessVars)

(***************************************************************************)
(* The pure-function harness: filterUsers on drawn inputs.                 *)
(***************************************************************************)
\* records the filter tells apart
UserPool ==
    { User(STR_female, <<69, 118, 101>>, <<70, 111, 120>>,
           <<101, 118, 101, 64, 120, 46, 105, 111>>, 34),            \* Eve Fox eve@x.io
      User(STR_female, <<65, 110, 110>>, <<84, 114, 101, 109, 97, 108, 101>>,
           <<97, 110, 110, 64, 120, 46, 105, 111>>, 28),             \* Ann Tremale ann@x.io
      User(STR_female, <<65, 109, 121>>, <<76, 101, 101>>,
           <<102, 101, 109, 97, 108, 101, 64, 120, 46, 105, 111>>, 30), \* Amy Lee female@x.io
      User(STR_male, <<116, 111, 109>>, <<70, 111, 120>>,
           <<116, 111, 109, 64, 120, 46, 105, 111>>, 45) }           \* tom Fox tom@x.io

UserLists == UNION {[1..n -> UserPool] : n \in 0..MaxUsers}

\* "", "  ", "male", " male ", "Male", "fe", "e F", "4"
FilterQueries ==
    {EmptyStr, <<32, 32>>, STR_male, <<32, 109, 97, 108, 101, 32>>,
     <<77, 97, 108, 101>>, <<102, 101>>, <<101, 32, 70>>, <<52>>}

FilterInit ==
    /\ ViewInit
    /\ SortIdle
    /\ PageIdle
    /\ fUsers \in UserLists
    /\ fQuery \in FilterQueries
    /\ fOut = <<>>
    /\ fApplied = FALSE
    /\ fAgain = <<>>
    /\ fReapplied = FALSE

\* filteredUsers = filterUsers(users, debouncedQuery) on the drawn inputs
ApplyFilter ==
    /\ ~fApplied
    /\ fOut' = filterUsers(fUsers, fQuery)
    /\ fApplied' = TRUE
    /\ UNCHANGED <<fUsers, fQuery, fAgain, fReapplied>>
    /\ UNCHANGED <<viewVars, sortVars, pageVars>>

\* filterUsers applied to its own result, with the same query
ReapplyFilter ==
    /\ fApplied
    /\ ~fReapplied
    /\ fAgain' = filterUsers(fOut, fQuery)
    /\ fReapplied' = TRUE
    /\ UNCHANGED <<fUsers, fQuery, fOut, fApplied>>
    /\ UNCHANGED <<viewVars, sortVars, pageVars>>

FilterNext == ApplyFilter \/ ReapplyFilter

FilterSpec == FilterInit /\ [][FilterNext]_vars

(***************************************************************************)
(* The pure-function harness: sortUsers on drawn inputs.                   *)
(***************************************************************************)
\* Longest record set drawn for sortUsers.
MaxSortLen == 3

\* records with keys that are equal, equal up to letter case (also outside
\* Basic Latin, with a lower case of another length, with a final sigma), and
\* different
SortPool ==
    { User(STR_female, <<201, 118, 101>>, <<70, 111, 120>>,
           <<101, 118, 101, 64, 120, 46, 105, 111>>, 34),      \* Éve Fox eve@x.io
      User(STR_female, <<233, 118, 101>>, <<82, 111, 101>>,
           <<69, 118, 101, 64, 121, 46, 105, 111>>, 34),       \* éve Roe Eve@y.io
      User(STR_male, <<304, 97, 110>>, <<79, 114, 114>>,
           <<105, 97, 110, 64, 120, 46, 105, 111>>, 41),       \* İan Orr ian@x.io
      User(STR_male, <<913, 931>>, <<75, 111, 115>>,
           <<97, 115, 64, 120, 46, 105, 111>>, 41),            \* ΑΣ Kos as@x.io
      User(STR_male, <<66, 111>>, <<82, 97, 121>>,
           <<66, 111, 64, 120, 46, 105, 111>>, 9) }            \* Bo Ray Bo@x.io

\* record sets of distinct records (email is unique within a batch)
SortLists ==
    {s \in UNION {[1..n -> SortPool] : n \in 0..MaxSortLen} :
        \A i, j \in 1..Len(s) : i # j => s[i] # s[j]}

SortConfigs == [key : SortKeys, direction : {"asc", "desc"}]

SortInit ==
    /\ ViewInit
    /\ FilterIdle
    /\ PageIdle
    /\ sUsers \in SortLists
    /\ sConfig \in SortConfigs
    /\ sOut = <<>>
    /\ sApplied = FALSE

\* sortedUsers = sortUsers(filteredUsers, sortConfig) on the drawn inputs; the
\* sort works on the copy [...users], the argument stays as it is
ApplySort ==
    /\ ~sApplied
    /\ sOut' = sortUsers(sUsers, sConfig)
    /\ sUsers' = sUsers
    /\ sApplied' = TRUE
    /\ UNCHANGED sConfig
    /\ UNCHANGED <<viewVars, filterVars, pageVars>>

\* the same call on a host whose Array.prototype.sort is not stable
ApplySortUnstableHost ==
    /\ ~sApplied
    /\ sOut' \in sortUsersUnstableHost(sUsers, sConfig)
    /\ sUsers' = sUsers
    /\ sApplied' = TRUE
    /\ UNCHANGED sConfig
    /\ UNCHANGED <<viewVars, filterVars, pageVars>>

SortNext == ApplySort \/ ApplySortUnstableHost

SortSpec == SortInit /\ [][SortNext]_vars

(***************************************************************************)
(* The pure-function harness: paginateData on drawn inputs.                *)
(***************************************************************************)
\* Longest sequence drawn for paginateData.
MaxItems == 4

\* Pages -MaxPage..MaxPage are asked for.
MaxPage == 3

\* Page sizes 1..MaxPageSize are asked for.
MaxPageSize == 2

\* Math.ceil(len / size)
pageCount(len, size) == (len + size - 1) \div size

PageInit ==
    /\ ViewInit
    /\ FilterIdle
    /\ SortIdle
    /\ pData \in {[i \in 1..n |-> i] : n \in 0..MaxItems}
    /\ pPage \in (0 - MaxPage)..MaxPage
    /\ pSize \in 1..MaxPageSize
    /\ pOut = <<>>
    /\ pPages = <<>>
    /\ pApplied = FALSE

\* paginatedUsers = paginateData(sortedUsers, currentPage, pageSize) on the
\* drawn inputs, and the pages 1..ceil(len / size) of the same sequence
ApplyPaginate ==
    /\ ~pApplied
    /\ pOut' = paginateData(pData, pPage, pSize)
    /\ pPages' = [p \in 1..pageCount(Len(pData), pSize) |->
                    paginateData(pData, p, pSize)]
    /\ pApplied' = TRUE
    /\ UNCHANGED <<pData, pPage, pSize>>
    /\ UNCHANGED <<viewVars, filterVars, sortVars>>

PageNext == ApplyPaginate

PageSpec == PageInit /\ [][PageNext]_vars

(***************************************************************************)
(* Claims.                                                                 *)
(***************************************************************************)
\* clamp(n, lo, hi) of the specification
clamp(n, lo, hi) == Max({lo, Min({n, hi})})

\* C1: whenever a step commits a new debouncedQuery, page is 1 in the
\* resulting state.
C1_PageIsOneAfterCommit ==
    [][debouncedQuery' # debouncedQuery => currentPage' = 1]_vars

\* C2: the completion of an attempt that was aborted while pending changes no
\* part of FetchState (loading, users, error), also when a new attempt has
\* been started since.
C2_AbortedCompletionChangesNothing ==
    [][(\E i \in 1..Len(attempts) :
            /\ attempts[i].aborted
            /\ attempts[i].pc # "done"
            /\ attempts'[i].pc = "done")
        => UNCHANGED <<loading, users, error>>]_vars

\* C3: Previous leaves page = clamp(page - 1, 1, T) and Next leaves
\* page = clamp(page + 1, 1, T), with T = max(1, totalPages).
C3_NavigationClamps ==
    [][/\ PreviousPage =>
            currentPage' = clamp(currentPage - 1, 1, Max({1, totalPages}))
       /\ NextPage =>
            currentPage' = clamp(currentPage + 1, 1, Max({1, totalPages}))]_vars

\* C4 (as stated): setQuery leaves debouncedQuery, the sort configuration and
\* page as they were.
C4_SetQueryChangesOnlyQuery ==
    [][\A q \in Queries :
         onChange(q) => UNCHANGED <<debouncedQuery, sortConfig, currentPage>>]_vars

\* C4 (amended): setQuery(q) sets query to q and page to 1, leaves
\* debouncedQuery and the sort configuration as they were, and, when q is a
\* new value, leaves exactly one pending timer, which holds q.
C4_SetQuerySetsQueryAndPage ==
    [][\A q \in Queries :
         onChange(q) =>
            /\ searchQuery' = q
            /\ currentPage' = 1
            /\ UNCHANGED <<debouncedQuery, sortConfig>>
            /\ (q # searchQuery =>
                  \E id \in 1..2 : timers' = {[id |-> id, value |-> q]})]_vars

\* C4 witness: a setQuery has acted on a sorted view and is not committed yet.
C4_Witness ==
    /\ searchQuery = <<97, 98>>
    /\ debouncedQuery = <<97>>
    /\ sortConfig = [key |-> "email", direction |-> "desc"]
    /\ currentPage = 1
    /\ \E t \in timers : t.value = searchQuery

\* "male" is a substring of a field other than gender
maleInOtherField(user) ==
    \/ includes(user.name.first, STR_male)
    \/ includes(user.name.last, STR_male)
    \/ includes(user.name.first \o <<32>> \o user.name.last, STR_male)
    \/ includes(user.email, STR_male)
    \/ includes(toString(user.dob.age), STR_male)

\* C5 (as stated): filter(R, "male") holds no record whose gender is "female".
C5_NoFemaleForMale ==
    (fApplied /\ fQuery = STR_male) =>
        \A i \in 1..Len(fOut) : fOut[i].gender # STR_female

\* C5 (amended): filter(R, "male") holds a record whose gender is "female" only
\* if "male" is a substring of its first name, last name, "first last", email
\* or age string: the gender field never admits it.
C5_FemaleOnlyByOtherField ==
    (fApplied /\ fQuery = STR_male) =>
        \A i \in 1..Len(fOut) :
            fOut[i].gender = STR_female => maleInOtherField(fOut[i])

\* C5 witness: filter(R, "male") has dropped a female record and kept another.
C5_Witness ==
    /\ fApplied
    /\ fQuery = STR_male
    /\ Len(fUsers) = 2
    /\ Len(fOut) = 1
    /\ fUsers[1].gender = STR_female
    /\ fUsers[2].gender = STR_female
    /\ fOut[1].gender = STR_female

\* the sort configuration setSort(key) must leave
sortAfter(key) ==
    [key |-> key,
     direction |-> IF sortConfig.key # key THEN "asc"
                   ELSE IF sortConfig.direction = "asc" THEN "desc" ELSE "asc"]

\* C6: setSort(key) flips the direction of the current key and selects a new
\* key ascending, with page 1; every step that changes the sort configuration
\* is such a step as a whole.
C6_SetSort ==
    [][/\ \A key \in SortKeys :
            handleSort(key) => (sortConfig' = sortAfter(key) /\ currentPage' = 1)
       /\ sortConfig' # sortConfig =>
            /\ \E key \in SortKeys : sortConfig' = sortAfter(key)
            /\ currentPage' = 1]_vars

\* C6 witness: the same key was selected twice after a change of key.
C6_Witness ==
    /\ sortConfig = [key |-> "gender", direction |-> "desc"]
    /\ currentPage = 1
    /\ users = BigBatch

\* C7: at most one timer is pending and it holds the current query; a step
\* that commits a new debouncedQuery commits the current query, so a query
\* replaced before its timer fired is never committed.
C7_DebounceCollapses ==
    [][/\ Cardinality(timers') <= 1
       /\ \A t \in timers' : t.value = searchQuery'
       /\ debouncedQuery' # debouncedQuery => debouncedQuery' = searchQuery]_vars

\* C7 witness: "a" was typed and replaced; only the timer of "ab" is pending.
C7_Witness ==
    /\ <<97>> \in queryHistory
    /\ searchQuery = <<97, 98>>
    /\ debouncedQuery = EmptyStr
    /\ timers = {[id |-> 1, value |-> <<97, 98>>]}

\* C8: under fairness of each timer that stays pending, while the view stays
\* mounted and the query stays q (no further setQuery), debouncedQuery
\* eventually equals q.
C8_EventuallyCommitted ==
    \A q \in Queries :
        (mounted /\ searchQuery = q)
            ~> (debouncedQuery = q \/ searchQuery # q \/ ~mounted)

\* C8 witness: a typed query has been committed by its timer.
C8_Witness ==
    /\ mounted
    /\ searchQuery = <<97, 98>>
    /\ debouncedQuery = <<97, 98>>
    /\ timers = {}

\* C9: debouncedQuery is the current query or a value the query held earlier.
C9_DebouncedIsPriorQuery == debouncedQuery \in queryHistory

\* C9 witness: debouncedQuery holds an earlier value of the query.
C9_Witness ==
    /\ debouncedQuery = <<97, 98, 32>>
    /\ searchQuery = STR_male
    /\ queryHistory = {EmptyStr, <<97, 98, 32>>, STR_male}

\* C10: once FetchState has left loading, it never changes again.
C10_TerminalFetchState ==
    [][~loading => UNCHANGED <<loading, users, error>>]_vars

\* C11: a network error, a non-success status and an unparseable body end in
\* status failed with no records and a non-empty error message; a success ends
\* in status ready with the parsed records and no error message; and whenever
\* an error message is set, records is empty and loading is over.
C11_FetchOutcomes ==
    [][/\ error' # NoError => (users' = <<>> /\ ~loading')
       /\ \A i \in 1..Len(attempts) :
            /\ (\/ FetchResolves(i, FALSE)
                \/ \E message \in NetworkErrorMessages : FetchRejects(i, message)
                \/ \E body \in UnparseableBodies : JsonRejects(i, body)) =>
                  /\ status' = "failed"
                  /\ users' = <<>>
                  /\ error' \notin {NoError, ""}
            /\ \A batch \in Batches :
                  JsonResolves(i, batch) =>
                      /\ status' = "ready"
                      /\ users' = batch
                      /\ error' = NoError]_vars

\* C11 witness: the fetch has failed on a network error.
C11_Witness ==
    /\ mounted
    /\ status = "failed"
    /\ error \in NetworkErrorMessages
    /\ users = <<>>

\* C12: the completion of an aborted attempt sets no error message and does
\* not make the status failed.
C12_AbortIsNoError ==
    [][(\E i \in 1..Len(attempts) :
            /\ attempts[i].aborted
            /\ attempts[i].pc # "done"
            /\ attempts'[i].pc = "done")
        => (error' = error /\ (status' = "failed" => status = "failed"))]_vars

\* C12 witness: an aborted attempt has completed on a mounted view and no
\* error is set.
C12_Witness ==
    /\ mounted
    /\ attempts[1] = [pc |-> "done", aborted |-> TRUE]
    /\ error = NoError
    /\ status = "ready"

\* the record test of the filter contract, for the query text q
refMatches(user, q) ==
    \/ includes(user.name.first, q)
    \/ includes(user.name.last, q)
    \/ includes(user.name.first \o <<32>> \o user.name.last, q)
    \/ includes(user.email, q)
    \/ includes(toString(user.dob.age), q)
    \/ (IF q = STR_male THEN user.gender = STR_male ELSE includes(user.gender, q))

\* the records of us the contract keeps for the query text q, in order
refFilter(us, q) ==
    LET keep(user) == refMatches(user, q)
    IN  SelectSeq(us, keep)

\* only white space (or nothing)
blank(q) == \A i \in 1..Len(q) : q[i] \in WhiteSpace

\* C13 (as stated): for a query that is not blank, filter(R, query) keeps a
\* record iff the query itself passes one of the substring tests or the
\* gender test.
C13_FilterReference ==
    (fApplied /\ ~blank(fQuery)) => fOut = refFilter(fUsers, fQuery)

\* C13 (amended): for a query that is not blank, filter(R, query) keeps a
\* record iff the trimmed query passes one of the substring tests or the
\* gender test (gender equals "male" when the trimmed query is "male").
C13_FilterReferenceTrimmed ==
    (fApplied /\ ~blank(fQuery)) => fOut = refFilter(fUsers, trim(fQuery))

\* C13 witness: the query " male " has kept one record of two.
C13_Witness ==
    /\ fApplied
    /\ fQuery = <<32, 109, 97, 108, 101, 32>>
    /\ Len(fUsers) = 2
    /\ Len(fOut) = 1

\* C14: filter(filter(R, q), q) = filter(R, q), and filter(R, q) = R for a
\* blank q.
C14_FilterIdempotent ==
    /\ fReapplied => fAgain = fOut
    /\ (fApplied /\ blank(fQuery)) => fOut = fUsers

\* C14 witness: a filter that dropped a record has been applied twice.
C14_Witness ==
    /\ fReapplied
    /\ fQuery = <<102, 101>>
    /\ Len(fUsers) = 2
    /\ Len(fOut) = 1
    /\ fAgain = fOut

\* the sort key of the contract: the lower-cased string, or the age
refKey(user, key) ==
    CASE key = "name.first" -> toLowerCase(user.name.first)
      [] key = "gender" -> toLowerCase(user.gender)
      [] key = "email" -> toLowerCase(user.email)
      [] key = "dob.age" -> user.dob.age

\* x <= y on two keys: numbers by value, strings by code units
keyLeq(key, x, y) == IF key = "dob.age" THEN x <= y ELSE ~strLess(y, x)

\* every adjacent pair of out is in the order of the direction
ordered(out, config) ==
    \A i \in 1..(Len(out) - 1) :
        LET a == refKey(out[i], config.key)
            b == refKey(out[i + 1], config.key)
        IN  IF config.direction = "asc" THEN keyLeq(config.key, a, b)
            ELSE keyLeq(config.key, b, a)

\* out holds the records of in, each as often
isPermutation(out, in) ==
    /\ Len(out) = Len(in)
    /\ \A x \in Range(in) \cup Range(out) :
         Cardinality({i \in 1..Len(out) : out[i] = x})
             = Cardinality({i \in 1..Len(in) : in[i] = x})

\* C15: sort(R, k, direction) is a permutation of R whose adjacent pairs are in
\* the order of the direction by the lower-cased string (first_name, gender,
\* email) or the number (age), and R is left as it was.
C15_SortCorrect ==
    [][(sApplied' /\ ~sApplied) =>
          /\ sUsers' = sUsers
          /\ isPermutation(sOut', sUsers)
          /\ ordered(sOut', sConfig)]_vars

\* C15 witness: three records sorted descending by first name, reordered.
C15_Witness ==
    /\ sApplied
    /\ sConfig = [key |-> "name.first", direction |-> "desc"]
    /\ Len(sUsers) = 3
    /\ sOut # sUsers

\* the place of a record in a sequence of distinct records
position(s, x) == CHOOSE i \in 1..Len(s) : s[i] = x

\* C17: records with equal derived keys appear in the output of sort in the
\* relative order of its input, on every host (the implementation forces it).
C17_SortStable ==
    sApplied =>
        \A i, j \in 1..Len(sOut) :
            (i < j /\ refKey(sOut[i], sConfig.key) = refKey(sOut[j], sConfig.key))
                => position(sUsers, sOut[i]) < position(sUsers, sOut[j])

\* the pages of a sequence of pages, one after the other
RECURSIVE concat(_)
concat(pages) ==
    IF pages = <<>> THEN <<>> ELSE pages[1] \o concat(Tail(pages))

\* the records at the places (p - 1) * s + 1 .. p * s of data that exist
refPage(data, p, s) ==
    LET first == (p - 1) * s + 1
        last == Min({p * s, Len(data)})
    IN  [i \in 1..(last - first + 1) |-> data[first + i - 1]]

\* C16: for a page >= 1, paginate(R, p, s) is the slice [(p-1)*s, p*s) cut to
\* the length of R (empty past the last page), and the pages
\* 1..ceil(len(R)/s), one after the other, are R.
C16_PaginationCovers ==
    (pApplied /\ pPage >= 1) =>
        /\ pOut = refPage(pData, pPage, pSize)
        /\ concat(pPages) = pData

\* C16 witness: the short last page of a sequence of several pages.
C16_Witness ==
    /\ pApplied
    /\ Len(pData) = 3
    /\ pSize = 2
    /\ pPage = 2
    /\ pOut = <<3>>
    /\ Len(pPages) = 2

\* C18: for a page < 1, paginate(R, page, s) returns the records of page 1.
C18_PageClamped ==
    (pApplied /\ pPage < 1) => pOut = refPage(pData, 1, pSize)

\* C19: in every state with status ready,
\* 1 <= page <= max(1, ceil(count(filter(records, debouncedQuery)) / 5)).
C19_PageWithinRange ==
    status = "ready" =>
        /\ 1 <= currentPage
        /\ currentPage <=
             Max({1, pageCount(Len(filterUsers(users, debouncedQuery)), pageSize)})

====
